---- MODULE Spec2Model ----
(***************************************************************************)
(* A model of malamar's Application (src/malamar/_core.py): the binding    *)
(* registry and dependency resolver, the shared scoped-instance cache, and *)
(* the start/stop/run lifecycle driving the registered services            *)
(* (src/malamar/service.py) through asyncio.gather under one asyncio.Lock. *)
(* One action is one uninterrupted run of a coroutine between two          *)
(* suspension points of the single-threaded event loop.                    *)
(***************************************************************************)
EXTENDS Naturals, Integers, Sequences, FiniteSets, TLC

\* ------------------------------------------------------------------ bounds
\* Size of the object heap: how many instances the run may construct.
MaxObjs == 4
\* How many instances may exist when a service is registered for a lifecycle.
MaxRegistered == 2
\* How many orphaned service stop coroutines may be in flight per instance.
MaxOrphans == 1

\* ------------------------------------------------------------- the inputs
\* Caller tasks of the lifecycle API and execution contexts of lookups.
Tasks == {"t1", "t2"}
Contexts == {"c1", "c2"}
NoTask == "none"
\* Python's None as an instance reference.
None == 0
\* "no type given" (type=None) and "no base given" (base=None).
NoType == "NoType"

\* The classes the program under analysis declares.  Application is the
\* container itself; Leaf has no __init__; NeedsReq.__init__(self, dep: Leaf);
\* NeedsOpt.__init__(self, dep: Leaf | None); SvcA and SvcB derive from
\* Service, SvcB.__init__(self, a: SvcA | None); Other has no __init__;
\* NeedsEither.__init__(self, dep: Leaf | Other);
\* NeedsEitherOpt.__init__(self, dep: Leaf | Other | None); Impl derives
\* from Leaf and has no __init__.
Classes == {"Application", "Leaf", "NeedsReq", "NeedsOpt", "SvcA", "SvcB",
            "Other", "NeedsEither", "NeedsEitherOpt", "Impl"}
ServiceClasses == {"SvcA", "SvcB"}

\* An annotation is the tuple typing.get_args gives for a union, or the
\* one-element tuple <<cls>> for a plain class; "NoneType" is type(None).
Param(name, kind, ann) == [name |-> name, kind |-> kind, ann |-> ann]

\* inspect.signature(cls.__init__) without self, for classes that define
\* __init__; the classes outside the domain inherit object.__init__.
Signature(cls) ==
    CASE cls = "NeedsReq" -> << Param("dep", "POSITIONAL_OR_KEYWORD", <<"Leaf">>) >>
      [] cls = "NeedsOpt" -> << Param("dep", "POSITIONAL_OR_KEYWORD", <<"Leaf", "NoneType">>) >>
      [] cls = "SvcB"     -> << Param("a", "KEYWORD_ONLY", <<"SvcA", "NoneType">>) >>
      [] cls = "NeedsEither" ->
             << Param("dep", "POSITIONAL_OR_KEYWORD", <<"Leaf", "Other">>) >>
      [] cls = "NeedsEitherOpt" ->
             << Param("dep", "POSITIONAL_OR_KEYWORD", <<"Leaf", "Other", "NoneType">>) >>
      [] OTHER            -> << >>

\* issubclass(cls, base) over the declared classes.
issubclass(cls, base) ==
    \/ cls = base
    \/ base = "object"
    \/ base = "ServiceProto" /\ cls \in ServiceClasses
    \/ cls = "Impl" /\ base = "Leaf"

\* ------------------------------------------------------------------ state
VARIABLES
    \* the bindings and the heap
    singletons,      \* Application._singletons: type -> instance
    transients,      \* Application._transients: type -> class
    scoped,          \* Application._scoped: type -> class
    contextDefault,  \* the dict object given as default= to the ContextVar
    services,        \* Application._services, in insertion order: <<type, instance>>
    objs,            \* the heap: instance id -> [cls, args, kwargs]
    registered,      \* instances whose Service.__registered is True
    running,         \* instances whose Service.__running is True
    \* the Application's lifecycle
    starting, started, stopping, stopped,   \* the four asyncio.Event flags
    lockOwner,       \* the task holding Application._lock, or NoTask
    lockWaiters,     \* the tasks waiting for the lock, first come first served
    \* the caller tasks
    pc,              \* where each task is: idle, lock, gather, wait_stopped, done
    op,              \* the lifecycle call the task is in: start, stop
    inRun,           \* whether that call was made by run()
    timeoutArg,      \* whether start was given a timeout
    cancelReq,       \* whether the task was cancelled while run() awaited stopped
    woken,           \* whether the stopped event released the task's wait
    result,          \* outcome of the task's finished call
    \* the fan-out of the call holding the lock
    fanKind,         \* "start", "stop" or "none"
    fan,             \* the instances whose _start/_stop were handed to gather
    child,           \* per position of fan: the state of that service coroutine
    fanErr,          \* the first exception a child raised (gather's exception)
    orphans,         \* per instance: _stop coroutines left running by a failed stop
    lingering,       \* whether _start coroutines left running by a failed start still run
    \* what callers saw
    ret,             \* the last registry call and what it returned or raised
    scopedSeen,      \* every [ctx, type, inst] a get_scoped call returned
    timedOut,        \* whether the last start() to end ended by its timeout
    \* a component derived from the base class Service (_service.py)
    svc,             \* its four asyncio.Event flags
    spc,             \* where each caller of its start/stop is: idle, start, stop, done
    sresult          \* outcome of the caller's finished call

diVars == <<singletons, transients, scoped, contextDefault, ret, scopedSeen>>
lifeVars == <<running, starting, started, stopping, stopped, lockOwner,
              lockWaiters, pc, op, inRun, timeoutArg, cancelReq, woken, result,
              fanKind, fan, child, fanErr, orphans, lingering, timedOut>>
heapVars == <<services, objs, registered>>
flagVars == <<starting, started, stopping, stopped>>
lockVars == <<lockOwner, lockWaiters>>
taskVars == <<pc, op, inRun, timeoutArg, cancelReq, woken, result>>
fanVars == <<fanKind, fan, child, fanErr>>
svcVars == <<svc, spc, sresult>>
vars == <<singletons, transients, scoped, contextDefault, services, objs,
          registered, running, starting, started, stopping, stopped,
          lockOwner, lockWaiters, pc, op, inRun, timeoutArg, cancelReq, woken,
          result, fanKind, fan, child, fanErr, orphans, lingering, ret, scopedSeen,
          timedOut, svc, spc, sresult>>

\* ------------------------------------------------------------ dictionaries
\* d[k] = v
DictSet(d, k, v) == (k :> v) @@ d

\* A bind that leaves a key already present as it is.
ServicesSet_keeps_first(svcs, type, inst) ==
    IF \E i \in 1..Len(svcs) : svcs[i][1] = type
    THEN svcs
    ELSE Append(svcs, <<type, inst>>)

\* self._services[type] = instance: an existing key keeps its position.
ServicesSet(svcs, type, inst) ==
    IF \E i \in 1..Len(svcs) : svcs[i][1] = type
    THEN [i \in 1..Len(svcs) |-> IF svcs[i][1] = type THEN <<type, inst>> ELSE svcs[i]]
    ELSE Append(svcs, <<type, inst>>)

\* type in self._services
ServiceKeys(svcs) == {svcs[i][1] : i \in 1..Len(svcs)}

\* self._services[type]
ServiceAt(svcs, type) == svcs[CHOOSE i \in 1..Len(svcs) : svcs[i][1] = type][2]

\* list(self._services.values())
ServiceValues(svcs) == [i \in 1..Len(svcs) |-> svcs[i][2]]

\* ------------------------------------------------- constructor inspection
\* The name slot of a positional dependency (name = None).
NoName == "positional"

\* _get_optional_type: <<flag, type>>, the flag True exactly when the
\* annotation is a union holding NoneType, the type with NoneType removed.
get_optional_type(ann) ==
    IF Len(ann) >= 2 /\ \E i \in 1..Len(ann) : ann[i] = "NoneType"
    THEN IF Len(ann) = 2
         THEN <<TRUE, << IF ann[2] = "NoneType" THEN ann[1] ELSE ann[2] >> >>
         ELSE <<TRUE, SelectSeq(ann, LAMBDA a : a # "NoneType")>>
    ELSE <<FALSE, ann>>

\* One entry of _get_dependencies' result: (name, type, required); the
\* first component of _get_optional_type's result is unpacked as required.
Dependency(p) ==
    LET opt == get_optional_type(p.ann)
    IN  [name     |-> IF p.kind = "KEYWORD_ONLY" THEN p.name ELSE NoName,
         type     |-> opt[2],
         required |-> opt[1]]

\* _get_dependencies(cls): [err, deps]; a parameter without annotation
\* (ann = <<>>) raises ValueError.
get_dependencies(cls) ==
    LET sig == Signature(cls)
    IN  IF \E i \in 1..Len(sig) : sig[i].ann = << >>
        THEN [err |-> "Missing type hint", deps |-> << >>]
        ELSE [err |-> "none", deps |-> [i \in 1..Len(sig) |-> Dependency(sig[i])]]

\* ---------------------------------------------------------- the resolver
\* The mutable store a resolution threads through: the heap and the dict
\* the ContextVar hands out.
Store(o, c) == [objs |-> o, ctx |-> c]
StoreOf(r) == [objs |-> r.objs, ctx |-> r.ctx]

\* return v / raise ValueError(e), with the store as it is at that point.
Return(v, key, st) == [err |-> "none", val |-> v, key |-> key, objs |-> st.objs, ctx |-> st.ctx]
Raise(e, st) == [err |-> e, val |-> None, key |-> NoType, objs |-> st.objs, ctx |-> st.ctx]

\* The cls argument of the registration calls: a class or a ready instance.
Class(c) == [isClass |-> TRUE, cls |-> c, id |-> None]
Instance(i) == [isClass |-> FALSE, cls |-> NoType, id |-> i]

\* cls(*args, **kwargs): the new heap object.
NewObject(cls, args, kwargs) == [cls |-> cls, args |-> args, kwargs |-> kwargs]

\* isinstance(instance, type)
isinstance(o, inst, type) == inst # None /\ issubclass(o[inst].cls, type)

\* A membership test that takes a union for its first alternative.
InDict_first_alternative(type, d) == type[1] \in DOMAIN d

\* `type in d` for a dependency's type: a union of several classes is no key.
InDict(type, d) == Len(type) = 1 /\ type[1] \in DOMAIN d
InServices(type) == Len(type) = 1 /\ type[1] \in ServiceKeys(services)

\* self._contexts.get(): no code path calls set(), so every context reads
\* the one dict object that was given as default.
ContextVar_get(c, st) == st.ctx

\* Application.get_singleton
get_singleton(type, required, st) ==
    IF type \notin DOMAIN singletons
    THEN IF required THEN Raise("Singleton not found", st) ELSE Return(None, type, st)
    ELSE Return(singletons[type], type, st)

\* Application.get_service
get_service(type, required, st) ==
    IF type \notin ServiceKeys(services)
    THEN IF required THEN Raise("Service not found", st) ELSE Return(None, type, st)
    ELSE Return(ServiceAt(services, type), type, st)

RECURSIVE create_instance(_, _, _, _, _)
RECURSIVE resolve_from(_, _, _, _, _, _)
RECURSIVE get_transient(_, _, _, _)
RECURSIVE get_scoped(_, _, _, _)

\* get_transient handing back an instance of the class built earlier, when
\* there is one, instead of building one per call.
get_transient_reuses(c, type, required, st) ==
    IF type \notin DOMAIN transients
    THEN IF required THEN Raise("Transient not found", st) ELSE Return(None, type, st)
    ELSE IF \E i \in 1..Len(st.objs) : st.objs[i].cls = transients[type]
         THEN Return(CHOOSE i \in 1..Len(st.objs) : st.objs[i].cls = transients[type], type, st)
         ELSE create_instance(c, Class(transients[type]), type, NoType, st)

\* Application.get_transient
get_transient(c, type, required, st) ==
    IF type \notin DOMAIN transients
    THEN IF required THEN Raise("Transient not found", st) ELSE Return(None, type, st)
    ELSE create_instance(c, Class(transients[type]), type, NoType, st)

\* get_scoped's `context[type] = instance; return context[type]`, r being
\* what _create_instance gave: the dict written is the one the ContextVar
\* returned.
cache_scoped(type, r) ==
    IF r.err # "none" THEN r
    ELSE Return(DictSet(r.ctx, type, r.val)[type], type,
                Store(r.objs, DictSet(r.ctx, type, r.val)))

\* Application.get_scoped
get_scoped(c, type, required, st) ==
    IF type \notin DOMAIN scoped
    THEN IF required THEN Raise("Scoped not found", st) ELSE Return(None, type, st)
    ELSE IF type \notin DOMAIN ContextVar_get(c, st)
         THEN cache_scoped(type, create_instance(c, Class(scoped[type]), type, NoType, st))
         ELSE Return(ContextVar_get(c, st)[type], type, st)

\* The loop's dispatch with the service bindings looked at first.
resolve_one_services_first(c, d, st) ==
    IF InServices(d.type) THEN get_service(d.type[1], d.required, st)
    ELSE IF InDict(d.type, singletons) THEN get_singleton(d.type[1], d.required, st)
    ELSE IF InDict(d.type, transients) THEN get_transient(c, transients[d.type[1]], d.required, st)
    ELSE IF InDict(d.type, scoped) THEN get_scoped(c, d.type[1], d.required, st)
    ELSE IF d.required THEN Raise("Unknown dependency", st)
    ELSE Return(None, NoType, st)

\* One iteration of _resolve_dependencies' loop: the category that holds the
\* type decides; an unbound type raises only when required.
resolve_one(c, d, st) ==
    IF InDict(d.type, singletons) THEN get_singleton(d.type[1], d.required, st)
    ELSE IF InDict(d.type, transients) THEN get_transient(c, transients[d.type[1]], d.required, st)
    ELSE IF InDict(d.type, scoped) THEN get_scoped(c, d.type[1], d.required, st)
    ELSE IF InServices(d.type) THEN get_service(d.type[1], d.required, st)
    ELSE IF d.required THEN Raise("Unknown dependency", st)
    ELSE Return(None, NoType, st)

\* The result of _resolve_dependencies: (args, kwargs), or the exception.
Resolved(err, args, kwargs, st) ==
    [err |-> err, args |-> args, kwargs |-> kwargs, objs |-> st.objs, ctx |-> st.ctx]

\* Entry i resolved to r: the exception ends the loop, a value is appended
\* to the positional arguments or stored under the keyword's name.
resolve_next(c, types, i, args, kwargs, r) ==
    IF r.err # "none" THEN Resolved(r.err, args, kwargs, StoreOf(r))
    ELSE resolve_from(c, types, i + 1, StoreOf(r),
                      IF types[i].name = NoName THEN Append(args, r.val) ELSE args,
                      IF types[i].name = NoName THEN kwargs
                                                ELSE DictSet(kwargs, types[i].name, r.val))

\* Application._resolve_dependencies from entry i on.
resolve_from(c, types, i, st, args, kwargs) ==
    IF i > Len(types) THEN Resolved("none", args, kwargs, st)
    ELSE resolve_next(c, types, i, args, kwargs, resolve_one(c, types[i], st))

\* Application._resolve_dependencies
resolve_dependencies(c, types, st) == resolve_from(c, types, 1, st, << >>, << >>)

\* The end of _create_instance: the isinstance check on the instance, which
\* is the last object of heap o or the ready instance id.
checked(o, id, key, ctx) ==
    IF ~isinstance(o, id, key) THEN Raise("is not a subclass", Store(o, ctx))
    ELSE Return(id, key, Store(o, ctx))

\* instance = cls(*args, **kwargs) with the resolved arguments r.
construct(c, cls, key, r) ==
    IF r.err # "none" THEN Raise(r.err, StoreOf(r))
    ELSE checked(Append(r.objs, NewObject(cls, r.args, r.kwargs)),
                 Len(r.objs) + 1, key, r.ctx)

\* _create_instance for a class, its dependencies deps read off the
\* constructor.
create_from_class(c, cls, key, deps, st) ==
    IF deps.err # "none" THEN Raise(deps.err, st)
    ELSE construct(c, cls, key, resolve_dependencies(c, deps.deps, st))

\* _create_instance once the key type is known.
create_keyed(c, cls, key, base, st) ==
    IF base # NoType /\ ~issubclass(key, base) THEN Raise("must be a subclass", st)
    ELSE IF cls.isClass THEN create_from_class(c, cls.cls, key, get_dependencies(cls.cls), st)
    ELSE checked(st.objs, cls.id, key, st.ctx)

\* Application._create_instance: [err, val, key, objs, ctx], val the instance
\* and key the type it is to be bound under.
create_instance(c, cls, type, base, st) ==
    IF type = NoType /\ ~cls.isClass THEN Raise("type must be provided", st)
    ELSE create_keyed(c, cls, IF type = NoType THEN cls.cls ELSE type, base, st)

\* ------------------------------------------------------------------- Init
\* Application.__init__: the container is its own singleton, the stopped
\* event is set, nothing else is bound; no task has called anything yet.
Init ==
    /\ objs = << NewObject("Application", << >>, << >>) >>
    /\ singletons = ("Application" :> 1)
    /\ transients = << >>
    /\ scoped = << >>
    /\ contextDefault = << >>
    /\ services = << >>
    /\ registered = {}
    /\ running = {}
    /\ starting = FALSE
    /\ started = FALSE
    /\ stopping = FALSE
    /\ stopped = TRUE
    /\ lockOwner = NoTask
    /\ lockWaiters = << >>
    /\ pc = [t \in Tasks |-> "idle"]
    /\ op = [t \in Tasks |-> "none"]
    /\ inRun = [t \in Tasks |-> FALSE]
    /\ timeoutArg = [t \in Tasks |-> FALSE]
    /\ cancelReq = [t \in Tasks |-> FALSE]
    /\ woken = [t \in Tasks |-> FALSE]
    /\ result = [t \in Tasks |-> "none"]
    /\ fanKind = "none"
    /\ fan = << >>
    /\ child = << >>
    /\ fanErr = "none"
    /\ orphans = [i \in 1..MaxObjs |-> 0]
    /\ lingering = FALSE
    /\ ret = [op |-> "none", cls |-> NoType, type |-> NoType, ctx |-> "main",
              required |-> TRUE, err |-> "none", val |-> None]
    /\ scopedSeen = {}
    /\ timedOut = FALSE
    /\ svc = [starting |-> FALSE, started |-> FALSE, stopping |-> FALSE, stopped |-> TRUE]
    /\ spc = [t \in Tasks |-> "idle"]
    /\ sresult = [t \in Tasks |-> "none"]

\* ------------------------------------------------------ registry actions
\* What a registry call left for its caller to see.
Ret(o, cls, type, c, required, err, val) ==
    [op |-> o, cls |-> cls, type |-> type, ctx |-> c, required |-> required,
     err |-> err, val |-> val]

\* The classes a caller registers as singleton, transient or scoped, and
\* the explicit type= arguments it passes.
PlainClasses == {"Leaf", "NeedsReq", "NeedsOpt"}
TypeArgs == {NoType}

\* add_singleton leaving a key that already holds a singleton as it is.
bind_singleton_keeps_first(c, cls, type, r) ==
    /\ Len(r.objs) <= MaxObjs
    /\ objs' = r.objs
    /\ contextDefault' = r.ctx
    /\ singletons' = IF r.err = "none" /\ r.key \notin DOMAIN singletons
                     THEN DictSet(singletons, r.key, r.val) ELSE singletons
    /\ ret' = Ret("add_singleton", cls, type, c, TRUE, r.err, None)
    /\ UNCHANGED <<svcVars, transients, scoped, services, registered, scopedSeen, lifeVars>>

\* add_singleton after _create_instance gave r: self._singletons[type] = instance.
bind_singleton(c, cls, type, r) ==
    /\ Len(r.objs) <= MaxObjs
    /\ objs' = r.objs
    /\ contextDefault' = r.ctx
    /\ singletons' = IF r.err = "none" THEN DictSet(singletons, r.key, r.val) ELSE singletons
    /\ ret' = Ret("add_singleton", cls, type, c, TRUE, r.err, None)
    /\ UNCHANGED <<svcVars, transients, scoped, services, registered, scopedSeen, lifeVars>>

\* Application.add_singleton(cls, type=type) called in context c.
add_singleton(c, cls, type) ==
    bind_singleton(c, cls, type,
                   create_instance(c, Class(cls), type, NoType, Store(objs, contextDefault)))

\* What add_transient and add_scoped come to: [err, binding, objs, ctx].
Factory(err, binding, st) ==
    [err |-> err, binding |-> binding, objs |-> st.objs, ctx |-> st.ctx]

\* The last two statements of add_transient and add_scoped: the resolution
\* r of cls's dependencies, then the bind.
bind_factory(cls, key, binding, r) ==
    IF r.err # "none" THEN Factory(r.err, binding, StoreOf(r))
    ELSE Factory("none", DictSet(binding, key, cls), StoreOf(r))

\* add_transient and add_scoped without the duplicate check.
add_factory_keyed_rebinds(c, cls, key, binding, dup, deps, st) ==
    IF deps.err # "none" THEN Factory(deps.err, binding, st)
    ELSE bind_factory(cls, key, binding, resolve_dependencies(c, deps.deps, st))

\* The shared body of add_transient and add_scoped once the key is known:
\* the duplicate check on the category's own dict, _get_dependencies, the
\* resolution of the dependencies, the bind.
add_factory_keyed(c, cls, key, binding, dup, deps, st) ==
    IF key \in DOMAIN binding THEN Factory(dup, binding, st)
    ELSE IF deps.err # "none" THEN Factory(deps.err, binding, st)
    ELSE bind_factory(cls, key, binding, resolve_dependencies(c, deps.deps, st))

\* The shared body of add_transient and add_scoped.
add_factory(c, cls, type, binding, dup) ==
    add_factory_keyed(c, cls, IF type = NoType THEN cls ELSE type, binding, dup,
                      get_dependencies(cls), Store(objs, contextDefault))

\* add_transient with r what its body came to.
bind_transient(c, cls, type, r) ==
    /\ Len(r.objs) <= MaxObjs
    /\ objs' = r.objs
    /\ contextDefault' = r.ctx
    /\ transients' = r.binding
    /\ ret' = Ret("add_transient", cls, type, c, TRUE, r.err, None)
    /\ UNCHANGED <<svcVars, singletons, scoped, services, registered, scopedSeen, lifeVars>>

\* Application.add_transient(cls, type=type) called in context c.
add_transient(c, cls, type) ==
    bind_transient(c, cls, type,
                   add_factory(c, cls, type, transients, "Transient already exists"))

\* add_scoped with r what its body came to.
bind_scoped(c, cls, type, r) ==
    /\ Len(r.objs) <= MaxObjs
    /\ objs' = r.objs
    /\ contextDefault' = r.ctx
    /\ scoped' = r.binding
    /\ ret' = Ret("add_scoped", cls, type, c, TRUE, r.err, None)
    /\ UNCHANGED <<svcVars, singletons, transients, services, registered, scopedSeen, lifeVars>>

\* Application.add_scoped(cls, type=type) called in context c.
add_scoped(c, cls, type) ==
    bind_scoped(c, cls, type, add_factory(c, cls, type, scoped, "Scoped already exists"))

\* Service._register (service.py) on instance i: the error it raises, or "none".
register(i) == IF i \in registered THEN "Service already registered" ELSE "none"

\* add_service after _create_instance gave r: the instance is bound first,
\* then told to _register.
bind_service(c, cls, type, r) ==
    /\ Len(r.objs) <= MaxObjs
    /\ objs' = r.objs
    /\ contextDefault' = r.ctx
    /\ services' = IF r.err = "none" THEN ServicesSet(services, r.key, r.val) ELSE services
    /\ registered' = IF r.err = "none" /\ register(r.val) = "none"
                     THEN registered \cup {r.val} ELSE registered
    /\ ret' = Ret("add_service", cls, type, c, TRUE,
                  IF r.err # "none" THEN r.err ELSE register(r.val), None)
    /\ timedOut' = FALSE
    /\ UNCHANGED <<svcVars, singletons, transients, scoped, scopedSeen, running, flagVars,
                   lockVars, taskVars, fanVars, orphans, lingering>>

\* Application.add_service(cls, type=type) called in context c.
add_service(c, cls, type) ==
    bind_service(c, cls, type,
                 create_instance(c, Class(cls), type, "ServiceProto", Store(objs, contextDefault)))

\* Application.add_service(instance, type=type) called in context c with a
\* ready instance: heap object i, which the caller holds.
add_service_instance(c, i, type) ==
    /\ i \in 1..Len(objs)
    /\ bind_service(c, objs[i].cls, type,
                    create_instance(c, Instance(i), type, "ServiceProto",
                                    Store(objs, contextDefault)))

\* A lookup called in context c: get_singleton, get_transient, get_scoped
\* or get_service of type, with the required flag.
Lookup(o, c, type, required, st) ==
    CASE o = "get_singleton" -> get_singleton(type, required, st)
      [] o = "get_transient" -> get_transient(c, type, required, st)
      [] o = "get_scoped"    -> get_scoped(c, type, required, st)
      [] o = "get_service"   -> get_service(type, required, st)

\* The lookup returned or raised r to its caller.
got(o, c, type, required, r) ==
    /\ Len(r.objs) <= MaxObjs
    /\ objs' = r.objs
    /\ contextDefault' = r.ctx
    /\ ret' = Ret(o, NoType, type, c, required, r.err, r.val)
    /\ scopedSeen' = IF o = "get_scoped" /\ r.err = "none" /\ r.val # None
                     THEN scopedSeen \cup {[ctx |-> c, type |-> type, inst |-> r.val]}
                     ELSE scopedSeen
    /\ UNCHANGED <<svcVars, singletons, transients, scoped, services, registered, lifeVars>>

\* A caller in context c looks type up.
get(o, c, type, required) ==
    got(o, c, type, required, Lookup(o, c, type, required, Store(objs, contextDefault)))

\* The context the registration calls are made from.
MainContext == "c1"

\* Registration and transient lookups: the resolver at work on the
\* constructors of the registered classes.
NextResolve ==
    \/ \E cls \in PlainClasses, type \in TypeArgs : add_singleton(MainContext, cls, type)
    \/ \E cls \in PlainClasses, type \in TypeArgs : add_transient(MainContext, cls, type)
    \/ \E cls \in PlainClasses, type \in TypeArgs : add_scoped(MainContext, cls, type)
    \/ \E type \in PlainClasses, required \in BOOLEAN :
           get("get_transient", MainContext, type, required)
    \/ \E type \in PlainClasses, required \in BOOLEAN :
           get("get_singleton", MainContext, type, required)

SpecResolve == Init /\ [][NextResolve]_vars

\* Scoped registration and scoped lookups from several execution contexts.
NextScoped ==
    \/ \E cls \in PlainClasses, type \in TypeArgs : add_scoped(MainContext, cls, type)
    \/ \E c \in Contexts, type \in PlainClasses, required \in BOOLEAN :
           get("get_scoped", c, type, required)

SpecScoped == Init /\ [][NextScoped]_vars

\* Service classes registered as services and in the other categories, and
\* service lookups: a service's constructor resolved against every category.
NextServices ==
    \/ \E cls \in ServiceClasses, type \in TypeArgs : add_service(MainContext, cls, type)
    \/ \E cls \in ServiceClasses, type \in TypeArgs : add_singleton(MainContext, cls, type)
    \/ \E cls \in ServiceClasses, type \in TypeArgs : add_transient(MainContext, cls, type)
    \/ \E cls \in ServiceClasses, type \in TypeArgs : add_scoped(MainContext, cls, type)
    \/ \E type \in ServiceClasses, required \in BOOLEAN :
           get("get_service", MainContext, type, required)

SpecServices == Init /\ [][NextServices]_vars

\* Classes whose constructor parameter is a union of two classes, and the
\* two classes, registered as singletons and transients.
UnionClasses == {"Leaf", "Other", "NeedsEither", "NeedsEitherOpt"}

NextUnion ==
    \/ \E cls \in UnionClasses, type \in TypeArgs : add_singleton(MainContext, cls, type)
    \/ \E cls \in UnionClasses, type \in TypeArgs : add_transient(MainContext, cls, type)
    \/ \E type \in UnionClasses, required \in BOOLEAN :
           get("get_transient", MainContext, type, required)

SpecUnion == Init /\ [][NextUnion]_vars

\* add_service with everything a caller may hand it: a service class, a
\* class that is no service, a ready instance with or without a key type.
ServiceKeyArgs == {NoType, "SvcA", "SvcB", "ServiceProto"}

NextAddService ==
    \/ \E cls \in ServiceClasses \cup {"Leaf"} : add_service(MainContext, cls, NoType)
    \/ \E i \in 2..MaxObjs, type \in ServiceKeyArgs : add_service_instance(MainContext, i, type)
    \/ \E type \in ServiceClasses \cup {"ServiceProto"}, required \in BOOLEAN :
           get("get_service", MainContext, type, required)

SpecAddService == Init /\ [][NextAddService]_vars

\* An implementation class registered as transient under its base class as
\* key (add_transient(Impl, type=Leaf)) or under itself, and the classes
\* whose constructor asks for the base class.
LeafUsers == {"NeedsReq", "NeedsOpt"}
KeyArgs == {NoType, "Leaf"}

NextKeyed ==
    \/ \E type \in KeyArgs : add_transient(MainContext, "Impl", type)
    \/ \E cls \in LeafUsers : add_transient(MainContext, cls, NoType)
    \/ \E cls \in LeafUsers : add_singleton(MainContext, cls, NoType)
    \/ \E type \in LeafUsers \cup {"Leaf", "Impl"}, required \in BOOLEAN :
           get("get_transient", MainContext, type, required)

SpecKeyed == Init /\ [][NextKeyed]_vars

\* ---------------------------------------------------------- the lifecycle
\* Application.state
State ==
    IF starting THEN "STARTING"
    ELSE IF stopping THEN "STOPPING"
    ELSE IF started THEN "STARTED"
    ELSE IF stopped THEN "STOPPED"
    ELSE "UNKNOWN"

\* start's guard without the test of _started.
start_guard_ignores_started ==
    IF starting THEN "Application is already running"
    ELSE IF stopping THEN "Application is stopping"
    ELSE "none"

\* The guard at the head of Application.start: the error it raises, or "none".
start_guard ==
    IF starting \/ started THEN "Application is already running"
    ELSE IF stopping THEN "Application is stopping"
    ELSE "none"

\* The guard at the head of Application.stop.
stop_guard ==
    IF ~started THEN "Application is not running"
    ELSE IF stopping THEN "Application is already stopping"
    ELSE IF stopped THEN "Application is already stopped"
    ELSE "none"

GuardErrors == {"Application is already running", "Application is stopping",
                "Application is not running", "Application is already stopping",
                "Application is already stopped"}

\* asyncio.Lock.acquire returns without suspending only when the lock is
\* free and nobody waits for it.
LockFree == lockOwner = NoTask /\ lockWaiters = << >>

\* The lock given up once the guard has passed and the flag is set.
LockReleasedBeforeAwaiting(t) == NoTask

\* `async with self._lock:` spans the whole body of start and stop, the
\* awaited gather included: the task that passed the guard keeps the lock.
LockHeldWhileAwaiting(t) == t

\* The states of one service coroutine handed to gather.
ChildStates == {"pending", "inflight", "done", "cancelled"}
IsRaised(x) == x \notin ChildStates
\* gather resolved while children are still suspended.
AllDone_ignores_inflight == \A i \in 1..Len(child) : child[i] \in {"done", "inflight"}

\* The instances whose coroutine in the fan-out is suspended in the user's body.
InFlight == {fan[i] : i \in {j \in 1..Len(fan) : child[j] = "inflight"}}
AllDone == \A i \in 1..Len(child) : child[i] = "done"
NonePending == \A i \in 1..Len(child) : child[i] # "pending"
AllPending == \A i \in 1..Len(child) : child[i] = "pending"

\* gather(*coros): one child per registered service instance, none run yet.
FanOut(kind) ==
    /\ fanKind' = kind
    /\ fan' = ServiceValues(services)
    /\ child' = [i \in 1..Len(services) |-> "pending"]
    /\ fanErr' = "none"

\* The fan-out is over: the caller left the await.
FanClear ==
    /\ fanKind' = "none"
    /\ fan' = << >>
    /\ child' = << >>
    /\ fanErr' = "none"

\* Task t's call ends with outcome r: what is left of the call is its
\* outcome, for the caller to take.
Finish(t, r) ==
    /\ pc' = [pc EXCEPT ![t] = "done"]
    /\ result' = [result EXCEPT ![t] = r]
    /\ inRun' = [inRun EXCEPT ![t] = FALSE]
    /\ timeoutArg' = [timeoutArg EXCEPT ![t] = FALSE]
    /\ cancelReq' = [cancelReq EXCEPT ![t] = FALSE]

\* Task t's call goes on to the suspension point at, made by run() or not,
\* with or without a timeout.
Suspend(t, at, byRun, tmo) ==
    /\ pc' = [pc EXCEPT ![t] = at]
    /\ inRun' = [inRun EXCEPT ![t] = byRun]
    /\ timeoutArg' = [timeoutArg EXCEPT ![t] = tmo]
    /\ UNCHANGED <<result, cancelReq>>

\* Task t holds the lock in start(): guard, then _starting.set() and the
\* fan-out of every service's _start, up to the await.  w is the wait queue
\* t leaves behind.
EnterStart(t, w, byRun, tmo) ==
    /\ lockWaiters' = w
    /\ IF start_guard # "none"
       THEN /\ Finish(t, start_guard)
            /\ lockOwner' = NoTask
            /\ UNCHANGED <<flagVars, fanVars>>
       ELSE /\ starting' = TRUE
            /\ FanOut("start")
            /\ lockOwner' = LockHeldWhileAwaiting(t)
            /\ Suspend(t, "gather", byRun, tmo)
            /\ UNCHANGED <<started, stopping, stopped>>

\* Task t holds the lock in stop(): guard, then _stopping.set() and the
\* fan-out of every service's _stop, up to the await.
EnterStop(t, w) ==
    /\ lockWaiters' = w
    /\ IF stop_guard # "none"
       THEN /\ Finish(t, stop_guard)
            /\ lockOwner' = NoTask
            /\ UNCHANGED <<flagVars, fanVars>>
       ELSE /\ stopping' = TRUE
            /\ FanOut("stop")
            /\ lockOwner' = LockHeldWhileAwaiting(t)
            /\ Suspend(t, "gather", inRun[t], FALSE)
            /\ UNCHANGED <<starting, started, stopped>>

\* Task t suspends in `async with self._lock` behind the lock's holder.
WaitForLock(t, byRun, tmo) ==
    /\ lockWaiters' = Append(lockWaiters, t)
    /\ Suspend(t, "lock", byRun, tmo)
    /\ UNCHANGED <<lockOwner, flagVars, fanVars>>

\* await app.start(timeout=...) by an idle task; byRun when run() makes it.
CallStart(t, tmo, byRun) ==
    /\ pc[t] = "idle"
    /\ op' = [op EXCEPT ![t] = "start"]
    /\ IF LockFree THEN EnterStart(t, lockWaiters, byRun, tmo)
                   ELSE WaitForLock(t, byRun, tmo)
    /\ UNCHANGED <<svcVars, diVars, heapVars, running, woken, orphans, lingering, timedOut>>

\* Application.start called directly.
start(t, tmo) == CallStart(t, tmo, FALSE)

\* Application.run: its first statement awaits start.
run(t, tmo) == CallStart(t, tmo, TRUE)

\* Application.stop called directly by an idle task.
stop(t) ==
    /\ pc[t] = "idle"
    /\ op' = [op EXCEPT ![t] = "stop"]
    /\ IF LockFree THEN EnterStop(t, lockWaiters) ELSE WaitForLock(t, FALSE, FALSE)
    /\ UNCHANGED <<svcVars, diVars, heapVars, running, woken, orphans, lingering, timedOut>>

\* The lock was released and t is first in line: t resumes inside
\* `async with self._lock` and runs its guard.
acquire(t) ==
    /\ pc[t] = "lock"
    /\ lockOwner = NoTask
    /\ lockWaiters # << >> /\ Head(lockWaiters) = t
    /\ IF op[t] = "start" THEN EnterStart(t, Tail(lockWaiters), inRun[t], timeoutArg[t])
                          ELSE EnterStop(t, Tail(lockWaiters))
    /\ UNCHANGED <<svcVars, diVars, heapVars, running, op, woken, orphans, lingering, timedOut>>

\* gather's outer future takes the first exception a child raises.
FirstError(e) == IF fanErr = "none" THEN e ELSE fanErr

\* What a user-written start() or stop() body may do when first run, and
\* once it is suspended.
BodyFirst == {"done", "inflight", "raised"}
BodyLater == {"done", "raised"}

\* Service._start (service.py) up to its first suspension, as child i of the
\* fan-out: the two guards, __running = True, then the user's start() body,
\* which returns, suspends or raises.  The event loop runs the children's
\* first steps in the order gather scheduled them.
service_start_step(i, body) ==
    /\ fanKind = "start"
    /\ i \in 1..Len(fan)
    /\ child[i] = "pending"
    /\ \A j \in 1..(i - 1) : child[j] # "pending"
    /\ LET s == fan[i]
       IN  IF s \notin registered
           THEN /\ child' = [child EXCEPT ![i] = "Service not registered"]
                /\ fanErr' = FirstError("Service not registered")
                /\ UNCHANGED running
           ELSE IF s \in running
           THEN /\ child' = [child EXCEPT ![i] = "Service already running"]
                /\ fanErr' = FirstError("Service already running")
                /\ UNCHANGED running
           ELSE /\ running' = running \cup {s}
                /\ child' = [child EXCEPT ![i] = IF body = "raised" THEN "start raised" ELSE body]
                /\ fanErr' = IF body = "raised" THEN FirstError("start raised") ELSE fanErr
    /\ UNCHANGED <<svcVars, diVars, heapVars, flagVars, lockVars, taskVars, fanKind, fan,
                   orphans, lingering, timedOut>>

\* The user's start() body of child i, suspended so far, returns or raises.
service_start_finish(i, body) ==
    /\ fanKind = "start"
    /\ i \in 1..Len(fan)
    /\ child[i] = "inflight"
    /\ child' = [child EXCEPT ![i] = IF body = "raised" THEN "start raised" ELSE body]
    /\ fanErr' = IF body = "raised" THEN FirstError("start raised") ELSE fanErr
    /\ UNCHANGED <<svcVars, diVars, heapVars, running, flagVars, lockVars, taskVars, fanKind,
                   fan, orphans, lingering, timedOut>>

\* Service._stop (service.py) up to its first suspension, as child i: the two
\* guards, the user's stop() body, and __running = False once it returned.
service_stop_step(i, body) ==
    /\ fanKind = "stop"
    /\ i \in 1..Len(fan)
    /\ child[i] = "pending"
    /\ \A j \in 1..(i - 1) : child[j] # "pending"
    /\ LET s == fan[i]
       IN  IF s \notin registered
           THEN /\ child' = [child EXCEPT ![i] = "Service not registered"]
                /\ fanErr' = FirstError("Service not registered")
                /\ UNCHANGED running
           ELSE IF s \notin running
           THEN /\ child' = [child EXCEPT ![i] = "Service not running"]
                /\ fanErr' = FirstError("Service not running")
                /\ UNCHANGED running
           ELSE /\ body = "inflight" => orphans[s] < MaxOrphans
                /\ running' = IF body = "done" THEN running \ {s} ELSE running
                /\ child' = [child EXCEPT ![i] = IF body = "raised" THEN "stop raised" ELSE body]
                /\ fanErr' = IF body = "raised" THEN FirstError("stop raised") ELSE fanErr
    /\ UNCHANGED <<svcVars, diVars, heapVars, flagVars, lockVars, taskVars, fanKind, fan,
                   orphans, lingering, timedOut>>

\* The user's stop() body of child i, suspended so far, returns (and _stop
\* sets __running = False) or raises.
service_stop_finish(i, body) ==
    /\ fanKind = "stop"
    /\ i \in 1..Len(fan)
    /\ child[i] = "inflight"
    /\ running' = IF body = "done" THEN running \ {fan[i]} ELSE running
    /\ child' = [child EXCEPT ![i] = IF body = "raised" THEN "stop raised" ELSE body]
    /\ fanErr' = IF body = "raised" THEN FirstError("stop raised") ELSE fanErr
    /\ UNCHANGED <<svcVars, diVars, heapVars, flagVars, lockVars, taskVars, fanKind, fan,
                   orphans, lingering, timedOut>>

\* A _stop coroutine that outlived its stop() call (gather does not cancel
\* the siblings of a child that raised) finishes.
orphan_stop_finish(s, body) ==
    /\ s \in 1..Len(objs)
    /\ orphans[s] > 0
    /\ orphans' = [orphans EXCEPT ![s] = @ - 1]
    /\ lingering' = lingering
    /\ running' = IF body = "done" THEN running \ {s} ELSE running
    /\ UNCHANGED <<svcVars, diVars, heapVars, flagVars, lockVars, taskVars, fanVars, timedOut>>

\* The last _start coroutine that outlived its start() call finishes: the
\* user's start() body returns or raises, and nothing awaits the outcome.
lingering_start_finish ==
    /\ lingering
    /\ lingering' = FALSE
    /\ UNCHANGED <<svcVars, diVars, heapVars, running, flagVars, lockVars, taskVars, fanVars,
                   orphans, timedOut>>

\* start's success path without _stopped.clear().
start_succeed_keeps_stopped(t) ==
    /\ pc[t] = "gather" /\ op[t] = "start"
    /\ AllDone
    /\ starting' = FALSE
    /\ started' = TRUE
    /\ lockOwner' = NoTask
    /\ FanClear
    /\ IF inRun[t] THEN Suspend(t, "wait_stopped", TRUE, FALSE) ELSE Finish(t, "ok")
    /\ timedOut' = FALSE
    /\ UNCHANGED <<svcVars, diVars, heapVars, running, stopping, stopped, lockWaiters, op, woken,
                   orphans, lingering>>

\* After the await in start(): every child returned, so the finally clause
\* clears _starting, then _stopped.clear() and _started.set(); the lock is
\* released.  Inside run() the task goes on to await the stopped event,
\* which was just cleared.
start_succeed(t) ==
    /\ pc[t] = "gather" /\ op[t] = "start"
    /\ AllDone
    /\ starting' = FALSE
    /\ stopped' = FALSE
    /\ started' = TRUE
    /\ lockOwner' = NoTask
    /\ FanClear
    /\ IF inRun[t] THEN Suspend(t, "wait_stopped", TRUE, FALSE) ELSE Finish(t, "ok")
    /\ timedOut' = FALSE
    /\ UNCHANGED <<svcVars, diVars, heapVars, running, stopping, lockWaiters, op, woken, orphans, lingering>>

\* After the await in start(): a child raised, gather re-raises it, the
\* finally clause clears _starting and the exception leaves start().  gather
\* does not cancel the siblings of the child that raised: the _start
\* coroutines still suspended run on.
start_fail(t) ==
    /\ pc[t] = "gather" /\ op[t] = "start"
    /\ fanErr # "none" /\ NonePending
    /\ starting' = FALSE
    /\ lockOwner' = NoTask
    /\ lingering' = (lingering \/ InFlight # {})
    /\ FanClear
    /\ Finish(t, fanErr)
    /\ timedOut' = FALSE
    /\ UNCHANGED <<svcVars, diVars, heapVars, running, started, stopping, stopped, lockWaiters,
                   op, woken, orphans>>

\* A timeout after which start() carries on to the flag updates.
start_timeout_falls_through(t) ==
    /\ pc[t] = "gather" /\ op[t] = "start"
    /\ timeoutArg[t]
    /\ fanErr = "none" /\ ~AllDone
    /\ AllPending \/ NonePending
    /\ starting' = FALSE
    /\ stopped' = FALSE
    /\ started' = TRUE
    /\ lockOwner' = NoTask
    /\ FanClear
    /\ Finish(t, "TimeoutError")
    /\ timedOut' = TRUE
    /\ UNCHANGED <<svcVars, diVars, heapVars, running, stopping, lockWaiters, op, woken, orphans, lingering>>

\* A timeout that leaves the unfinished children running.
start_timeout_leaves_running(t) ==
    /\ pc[t] = "gather" /\ op[t] = "start"
    /\ timeoutArg[t]
    /\ fanErr = "none" /\ ~AllDone
    /\ AllPending \/ NonePending
    /\ starting' = FALSE
    /\ lockOwner' = NoTask
    /\ lingering' = (lingering \/ InFlight # {})
    /\ FanClear
    /\ Finish(t, "TimeoutError")
    /\ timedOut' = TRUE
    /\ UNCHANGED <<svcVars, diVars, heapVars, running, started, stopping, stopped, lockWaiters,
                   op, woken, orphans>>

\* asyncio.wait_for gives up: gather is cancelled, which cancels every child
\* not yet finished; the finally clause clears _starting and TimeoutError
\* leaves start().  The timer fires either before any child has run (a
\* timeout <= 0) or after every child has run its first step.
start_timeout(t) ==
    /\ pc[t] = "gather" /\ op[t] = "start"
    /\ timeoutArg[t]
    /\ fanErr = "none" /\ ~AllDone
    /\ AllPending \/ NonePending
    /\ starting' = FALSE
    /\ lockOwner' = NoTask
    /\ FanClear
    /\ Finish(t, "TimeoutError")
    /\ timedOut' = TRUE
    /\ UNCHANGED <<svcVars, diVars, heapVars, running, started, stopping, stopped, lockWaiters,
                   op, woken, orphans, lingering>>

\* _stopped.set(): every task waiting on the stopped event is released.
Wake(t) == [u \in Tasks |-> u # t /\ (woken[u] \/ pc[u] = "wait_stopped")]

\* After the await in stop(): every child returned, so the finally clause
\* clears _stopping, then _started.clear() and _stopped.set().
stop_succeed(t) ==
    /\ pc[t] = "gather" /\ op[t] = "stop"
    /\ AllDone
    /\ stopping' = FALSE
    /\ started' = FALSE
    /\ stopped' = TRUE
    /\ lockOwner' = NoTask
    /\ FanClear
    /\ Finish(t, "ok")
    /\ woken' = Wake(t)
    /\ UNCHANGED <<svcVars, diVars, heapVars, running, starting, lockWaiters, op, orphans, lingering, timedOut>>

\* After the await in stop(): gather was called without return_exceptions,
\* so a child's exception is re-raised; the finally clause clears _stopping
\* and the exception leaves stop() before the flags are updated.  The
\* children still suspended run on.
stop_fail(t) ==
    /\ pc[t] = "gather" /\ op[t] = "stop"
    /\ fanErr # "none" /\ NonePending
    /\ stopping' = FALSE
    /\ lockOwner' = NoTask
    /\ orphans' = [s \in DOMAIN orphans |->
                     orphans[s] + Cardinality({i \in 1..Len(fan) : fan[i] = s /\ child[i] = "inflight"})]
    /\ lingering' = lingering
    /\ FanClear
    /\ Finish(t, fanErr)
    /\ woken' = [woken EXCEPT ![t] = FALSE]
    /\ UNCHANGED <<svcVars, diVars, heapVars, running, starting, started, stopped, lockWaiters,
                   op, timedOut>>

\* The task running run() is cancelled while it awaits the stopped event.
run_cancel(t) ==
    /\ pc[t] = "wait_stopped"
    /\ ~cancelReq[t]
    /\ cancelReq' = [cancelReq EXCEPT ![t] = TRUE]
    /\ UNCHANGED <<svcVars, diVars, heapVars, running, flagVars, lockVars, pc, op, inRun,
                   timeoutArg, woken, result, fanVars, orphans, lingering, timedOut>>

\* run(): `await self.stopped` returns, and so does run().
run_resume(t) ==
    /\ pc[t] = "wait_stopped"
    /\ woken[t] /\ ~cancelReq[t]
    /\ Finish(t, "ok")
    /\ woken' = [woken EXCEPT ![t] = FALSE]
    /\ UNCHANGED <<svcVars, diVars, heapVars, running, flagVars, lockVars, op, fanVars,
                   orphans, lingering, timedOut>>

\* run(): `await self.stopped` raises CancelledError and the handler awaits
\* self.stop().
run_on_cancel(t) ==
    /\ pc[t] = "wait_stopped"
    /\ cancelReq[t]
    /\ op' = [op EXCEPT ![t] = "stop"]
    /\ woken' = [woken EXCEPT ![t] = FALSE]
    /\ IF LockFree THEN EnterStop(t, lockWaiters)
                   ELSE /\ lockWaiters' = Append(lockWaiters, t)
                        /\ pc' = [pc EXCEPT ![t] = "lock"]
                        /\ UNCHANGED <<lockOwner, flagVars, fanVars, inRun, timeoutArg,
                                       result, cancelReq>>
    /\ UNCHANGED <<svcVars, diVars, heapVars, running, orphans, lingering, timedOut>>

\* The caller takes the outcome of its finished call and is free again.
returns(t) ==
    /\ pc[t] = "done"
    /\ pc' = [pc EXCEPT ![t] = "idle"]
    /\ op' = [op EXCEPT ![t] = "none"]
    /\ result' = [result EXCEPT ![t] = "none"]
    /\ UNCHANGED <<svcVars, diVars, heapVars, running, flagVars, lockVars, inRun, timeoutArg,
                   cancelReq, woken, fanVars, orphans, lingering, timedOut>>

\* Registration is done while no lifecycle call is under way and nothing
\* is started or running: the usage the container supports.
Quiescent ==
    /\ ~started
    /\ running = {}
    /\ \A s \in DOMAIN orphans : orphans[s] = 0
    /\ \A t \in Tasks : pc[t] = "idle"

\* add_service between lifecycle cycles.
register_service(cls, type) ==
    /\ Quiescent
    /\ Len(objs) <= MaxRegistered
    /\ add_service(MainContext, cls, type)

NextLife ==
    \/ \E cls \in ServiceClasses, type \in TypeArgs : register_service(cls, type)
    \/ \E t \in Tasks, tmo \in BOOLEAN : start(t, tmo)
    \/ \E t \in Tasks, tmo \in BOOLEAN : run(t, tmo)
    \/ \E t \in Tasks : stop(t)
    \/ \E t \in Tasks : acquire(t)
    \/ \E i \in 1..MaxObjs, body \in BodyFirst : service_start_step(i, body)
    \/ \E i \in 1..MaxObjs, body \in BodyLater : service_start_finish(i, body)
    \/ \E i \in 1..MaxObjs, body \in BodyFirst : service_stop_step(i, body)
    \/ \E i \in 1..MaxObjs, body \in BodyLater : service_stop_finish(i, body)
    \/ \E s \in 1..MaxObjs, body \in BodyLater : orphan_stop_finish(s, body)
    \/ lingering_start_finish
    \/ \E t \in Tasks : start_succeed(t)
    \/ \E t \in Tasks : start_fail(t)
    \/ \E t \in Tasks : start_timeout(t)
    \/ \E t \in Tasks : stop_succeed(t)
    \/ \E t \in Tasks : stop_fail(t)
    \/ \E t \in Tasks : run_cancel(t)
    \/ \E t \in Tasks : run_resume(t)
    \/ \E t \in Tasks : run_on_cancel(t)
    \/ \E t \in Tasks : returns(t)

Spec == Init /\ [][NextLife]_vars

\* ------------------------------------------- the base class Service
\* Service.state (_service.py)
ServiceState ==
    IF svc.starting THEN "STARTING"
    ELSE IF svc.stopping THEN "STOPPING"
    ELSE IF svc.started THEN "STARTED"
    ELSE IF svc.stopped THEN "STOPPED"
    ELSE "UNKNOWN"

\* _start_service's guard without the test of _started.
start_service_guard_ignores_started ==
    IF svc.starting THEN "Application is already running"
    ELSE IF svc.stopping THEN "Application is stopping"
    ELSE "none"

\* The guard at the head of _start_service: the error it raises, or "none".
start_service_guard ==
    IF svc.starting \/ svc.started THEN "Application is already running"
    ELSE IF svc.stopping THEN "Application is stopping"
    ELSE "none"

\* The guard at the head of _stop_service.
stop_service_guard ==
    IF ~svc.started THEN "Application is not running"
    ELSE IF svc.stopping THEN "Application is already stopping"
    ELSE IF svc.stopped THEN "Application is already stopped"
    ELSE "none"

\* The caller's call ends with outcome r.
ServiceFinish(t, r) ==
    /\ spc' = [spc EXCEPT ![t] = "done"]
    /\ sresult' = [sresult EXCEPT ![t] = r]

\* await service.start() by an idle task: _start_service's guard, then
\* _starting.set() and the call of the user's start body
\* (__service_start__), which the task awaits.
start_service(t) ==
    /\ spc[t] = "idle"
    /\ IF start_service_guard # "none"
       THEN /\ ServiceFinish(t, start_service_guard)
            /\ svc' = svc
       ELSE /\ svc' = [svc EXCEPT !.starting = TRUE]
            /\ spc' = [spc EXCEPT ![t] = "start"]
            /\ sresult' = sresult
    /\ UNCHANGED <<diVars, heapVars, lifeVars>>

\* The user's start body returns: finally _starting.clear(), then
\* _stopped.clear() and _started.set().
start_service_returns(t) ==
    /\ spc[t] = "start"
    /\ svc' = [svc EXCEPT !.starting = FALSE, !.stopped = FALSE, !.started = TRUE]
    /\ ServiceFinish(t, "ok")
    /\ UNCHANGED <<diVars, heapVars, lifeVars>>

\* A failed start that had cleared _stopped before the await.
start_service_raises_stopped_cleared(t, e) ==
    /\ spc[t] = "start"
    /\ svc' = [svc EXCEPT !.starting = FALSE, !.stopped = FALSE]
    /\ ServiceFinish(t, e)
    /\ UNCHANGED <<diVars, heapVars, lifeVars>>

\* The await of the user's start body raises e (the body raised, gave up
\* on its timeout, or the caller's task was cancelled): the finally clause
\* clears _starting and e leaves start().
start_service_raises(t, e) ==
    /\ spc[t] = "start"
    /\ svc' = [svc EXCEPT !.starting = FALSE]
    /\ ServiceFinish(t, e)
    /\ UNCHANGED <<diVars, heapVars, lifeVars>>

\* await service.stop() by an idle task: _stop_service's guard, then
\* _stopping.set() and the call of the user's stop body (__service_stop__).
stop_service(t) ==
    /\ spc[t] = "idle"
    /\ IF stop_service_guard # "none"
       THEN /\ ServiceFinish(t, stop_service_guard)
            /\ svc' = svc
       ELSE /\ svc' = [svc EXCEPT !.stopping = TRUE]
            /\ spc' = [spc EXCEPT ![t] = "stop"]
            /\ sresult' = sresult
    /\ UNCHANGED <<diVars, heapVars, lifeVars>>

\* The user's stop body returns: finally _stopping.clear(), then
\* _started.clear() and _stopped.set().
stop_service_returns(t) ==
    /\ spc[t] = "stop"
    /\ svc' = [svc EXCEPT !.stopping = FALSE, !.started = FALSE, !.stopped = TRUE]
    /\ ServiceFinish(t, "ok")
    /\ UNCHANGED <<diVars, heapVars, lifeVars>>

\* The await of the user's stop body raises e: the finally clause clears
\* _stopping and e leaves stop().
stop_service_raises(t, e) ==
    /\ spc[t] = "stop"
    /\ svc' = [svc EXCEPT !.stopping = FALSE]
    /\ ServiceFinish(t, e)
    /\ UNCHANGED <<diVars, heapVars, lifeVars>>

\* The caller takes the outcome of its finished call and is free again.
service_call_returns(t) ==
    /\ spc[t] = "done"
    /\ spc' = [spc EXCEPT ![t] = "idle"]
    /\ sresult' = [sresult EXCEPT ![t] = "none"]
    /\ UNCHANGED <<svc, diVars, heapVars, lifeVars>>

\* What the await of a user's body may raise.
BodyErrors == {"body raised", "TimeoutError", "CancelledError"}

\* Tasks calling start() and stop() of one component directly.
NextService ==
    \/ \E t \in Tasks : start_service(t)
    \/ \E t \in Tasks : start_service_returns(t)
    \/ \E t \in Tasks, e \in BodyErrors : start_service_raises(t, e)
    \/ \E t \in Tasks : stop_service(t)
    \/ \E t \in Tasks : stop_service_returns(t)
    \/ \E t \in Tasks, e \in BodyErrors : stop_service_raises(t, e)
    \/ \E t \in Tasks : service_call_returns(t)

SpecService == Init /\ [][NextService]_vars

\* An Application and a component that is not registered with it share no
\* state.  So that one behaviour shows both, the component's callers act
\* while the Application is as it was constructed, and the Application's
\* lifecycle runs while the component is started and no call of it is
\* under way.
ServiceAtRest == svc.started /\ \A t \in Tasks : spc[t] = "idle"
AsConstructed == Len(objs) = 1 /\ Quiescent /\ LockFree /\ ~timedOut

NextStates ==
    \/ ServiceAtRest /\ NextLife
    \/ AsConstructed /\ NextService

SpecStates == Init /\ [][NextStates]_vars

\* ------------------------------------------------- the lifecycle's claims
\* The step in which task t runs the guard of call o: it enters the lock's
\* body and either suspends in gather or ends its call.
RunsGuard(t, o) ==
    /\ op'[t] = o
    /\ pc'[t] \in {"gather", "done"}
    /\ \/ pc[t] \in {"idle", "lock"}
       \/ pc[t] = "wait_stopped" /\ cancelReq[t]

\* The step in which task t makes a call.
Calls(t) == pc[t] = "idle" /\ pc'[t] # "idle"

\* The step in which task t leaves the await of its start() or stop().
LeavesAwait(t, o) == pc[t] = "gather" /\ op[t] = o /\ pc'[t] # "gather"

\* Task t's call is rejected with e: no service coroutine is created or
\* run and no flag moves.
Rejected(t, e) ==
    /\ pc'[t] = "done"
    /\ result'[t] = e
    /\ UNCHANGED <<flagVars, fanVars, running, orphans, lingering>>

\* C1: a start() whose guard runs while the application is started (a start
\* succeeded and no stop followed) raises "already running", and a stop()
\* whose guard runs while it is not started raises "not running"; the
\* rejected call invokes no service start/stop and leaves the flags alone.
C1_RejectedTransitions ==
    [][\A t \in Tasks :
         /\ (RunsGuard(t, "start") /\ started) => Rejected(t, "Application is already running")
         /\ (RunsGuard(t, "stop") /\ ~started) => Rejected(t, "Application is not running")
      ]_vars

\* C1's case: one task holds a rejected second start, another a rejected stop.
C1_Witness ==
    \E t, u \in Tasks :
        /\ pc[t] = "done" /\ op[t] = "start" /\ result[t] = "Application is already running"
        /\ pc[u] = "done" /\ op[u] = "stop" /\ result[u] = "Application is not running"

\* C2 as claimed: a stop() that passed its guard always ends with the state
\* STOPPED and the stopped event set, and returns normally.
C2_StopAlwaysStops ==
    [][\A t \in Tasks :
         LeavesAwait(t, "stop") =>
             /\ result'[t] = "ok"
             /\ stopped'
             /\ State' = "STOPPED"
      ]_vars

\* C3 as claimed: a call made while another call is awaiting its services
\* has its guard run at once, so that a call made while STARTING or
\* STOPPING ends at once with a guard error.
C3_GuardCheckedImmediately ==
    [][\A t \in Tasks :
         (Calls(t) /\ (starting \/ stopping)) =>
             (pc'[t] = "done" /\ result'[t] \in GuardErrors)
      ]_vars

\* C3 amended: a call made while another call holds the lock is suspended
\* with nothing checked and nothing changed; a guard runs only when no call
\* holds the lock, so it never sees STARTING or STOPPING; a stop() whose
\* guard then finds the application started goes on to stop it.
C3_GuardWaitsForLock ==
    [][\A t \in Tasks :
         /\ (Calls(t) /\ ~LockFree) =>
                (pc'[t] = "lock" /\ UNCHANGED <<flagVars, fanVars, result, running>>)
         /\ (\E o \in {"start", "stop"} : RunsGuard(t, o)) =>
                (lockOwner = NoTask /\ ~starting /\ ~stopping)
         /\ (RunsGuard(t, "stop") /\ started) => (pc'[t] = "gather" /\ stopping')
      ]_vars

\* C3's case: a stop() waits for the lock while the state is STARTING.
C3_Witness ==
    \E t \in Tasks : pc[t] = "lock" /\ op[t] = "stop" /\ State = "STARTING"

\* C4 as claimed: in the start() that follows a start() ended by its
\* timeout, no service's own start guard rejects the call.
C4_RestartableAfterTimeout ==
    (fanKind = "start" /\ timedOut) =>
        \A i \in 1..Len(child) : child[i] # "Service already running"

\* C5: a start() that leaves its await without every service's start having
\* returned (the timeout fired or a service's start raised) ends with that
\* error, with STARTING cleared and STARTED not set.
C5_FailedStart ==
    [][\A t \in Tasks :
         (LeavesAwait(t, "start") /\ ~AllDone) =>
             /\ pc'[t] = "done"
             /\ result'[t] = (IF fanErr # "none" THEN fanErr ELSE "TimeoutError")
             /\ ~starting' /\ ~started'
             /\ State' \notin {"STARTING", "STARTED"}
      ]_vars

\* C5's case: one start() ended by its timeout, another by a service's
\* start raising.
C5_Witness ==
    \E t, u \in Tasks :
        /\ pc[t] = "done" /\ op[t] = "start" /\ result[t] = "TimeoutError"
        /\ pc[u] = "done" /\ op[u] = "start" /\ result[u] = "start raised"
        /\ State \notin {"STARTING", "STARTED"}

\* C6: when start() completes successfully the state reads STARTED, the
\* started event is set, and the stopped and starting events are cleared.
C6_StartedAfterStart ==
    [][\A t \in Tasks :
         (LeavesAwait(t, "start") /\ (result'[t] = "ok" \/ pc'[t] = "wait_stopped")) =>
             /\ State' = "STARTED"
             /\ started' /\ ~stopped' /\ ~starting'
      ]_vars

\* C6's case: a start() of registered services has returned normally.
C6_Witness ==
    \E t \in Tasks :
        /\ pc[t] = "done" /\ op[t] = "start" /\ result[t] = "ok"
        /\ services # << >>
        /\ State = "STARTED"

\* C7 as claimed: run() returns normally only once the stopped event was
\* set after its start, and a run() cancelled while it waited for the
\* stopped event ends with the application STOPPED.
C7_RunStopsOnCancel ==
    [][\A t \in Tasks :
         /\ (pc[t] = "wait_stopped" /\ ~cancelReq[t] /\ pc'[t] = "done") => woken[t]
         /\ (inRun[t] /\ cancelReq[t] /\ pc[t] # "done" /\ pc'[t] = "done") =>
                State' = "STOPPED"
      ]_vars

\* --------------------------------------------------- the registry's claims
\* The type is a key of none of the four binding categories.
Unbound(type) ==
    /\ type \notin DOMAIN singletons
    /\ type \notin DOMAIN transients
    /\ type \notin DOMAIN scoped
    /\ type \notin ServiceKeys(services)

\* The annotation is declared optional: a union with None.
DeclaredOptional(ann) == \E i \in 1..Len(ann) : ann[i] = "NoneType"

\* cls's constructor has a required parameter whose type is bound nowhere.
RequiredUnbound(cls) ==
    \E i \in 1..Len(Signature(cls)) :
        LET ann == Signature(cls)[i].ann
        IN  ~DeclaredOptional(ann) /\ Len(ann) = 1 /\ Unbound(ann[1])

\* Every parameter of cls's constructor is declared optional, T | None,
\* with T bound nowhere, and there is such a parameter.
OnlyOptionalUnbound(cls) ==
    /\ Signature(cls) # << >>
    /\ \A i \in 1..Len(Signature(cls)) :
        LET ann == Signature(cls)[i].ann
        IN  DeclaredOptional(ann) /\ Len(ann) = 2 /\ Unbound(get_optional_type(ann)[2][1])

\* C8 as claimed: constructing a class (add_singleton of the class) that has
\* a required parameter of an unbound type fails with the unknown-dependency
\* error; a class whose parameters are optional and unbound is constructed
\* with None for each of them.
C8_RequiredFailsOptionalIsNull ==
    [][\A cls \in PlainClasses :
         (ret'.op = "add_singleton" /\ ret'.cls = cls) =>
             /\ RequiredUnbound(cls) => ret'.err = "Unknown dependency"
             /\ OnlyOptionalUnbound(cls) =>
                    /\ ret'.err = "none"
                    /\ Len(objs') = Len(objs) + 1
                    /\ objs'[Len(objs')].cls = cls
                    /\ \A i \in 1..Len(objs'[Len(objs')].args) :
                           objs'[Len(objs')].args[i] = None
      ]_vars

\* C9 as claimed: add_transient or add_scoped of a class with a required
\* parameter of an unbound type raises and binds nothing.
C9_RegistrationFailsFast ==
    [][\A cls \in PlainClasses :
         (ret'.op \in {"add_transient", "add_scoped"} /\ ret'.cls = cls /\ RequiredUnbound(cls)) =>
             /\ ret'.err # "none"
             /\ transients' = transients
             /\ scoped' = scoped
      ]_vars

\* C10 as claimed: of the instances get_scoped has returned for one type,
\* two lookups in the same context got the same instance and two lookups
\* in different contexts got different instances.
C10_ScopedPerContext ==
    \A p, q \in scopedSeen :
        p.type = q.type => (p.ctx = q.ctx <=> p.inst = q.inst)

\* C11: a get_transient of a type bound as transient returns an instance
\* constructed by that very call, of the bound class, which no earlier call
\* can have returned; a get_singleton of a type bound as singleton returns
\* the instance bound to it and constructs nothing; add_singleton binds the
\* instance it constructed.
C11_TransientFreshSingletonSame ==
    [][\A type \in PlainClasses :
         /\ (ret'.op = "get_transient" /\ ret'.type = type /\ type \in DOMAIN transients) =>
                /\ ret'.err = "none"
                /\ Len(objs') > Len(objs)
                /\ ret'.val = Len(objs')
                /\ objs'[ret'.val].cls = transients[type]
                /\ \A i \in 1..Len(objs) : objs'[i] = objs[i]
         /\ (ret'.op = "get_singleton" /\ ret'.type = type /\ type \in DOMAIN singletons) =>
                /\ ret'.err = "none"
                /\ ret'.val = singletons[type]
                /\ UNCHANGED <<singletons, objs>>
         /\ (ret'.op = "add_singleton" /\ ret'.cls = type /\ ret'.err = "none") =>
                /\ singletons'[type] = Len(objs')
                /\ objs'[Len(objs')].cls = type
      ]_vars

\* C11's case: a transient lookup has just returned a second instance of a
\* class, in a registry that also holds a registered singleton.
C11_Witness ==
    /\ ret.op = "get_transient" /\ ret.err = "none" /\ ret.val # None
    /\ \E i \in 1..Len(objs) : i # ret.val /\ objs[i].cls = objs[ret.val].cls
    /\ \E type \in PlainClasses : type \in DOMAIN singletons

\* C12 as claimed: add_transient on a key bound as transient fails, so does
\* add_transient on a key bound as scoped and add_scoped on a key bound as
\* transient, and no step leaves a key bound in both categories.
C12_TransientScopedExclusive ==
    [][\A cls \in PlainClasses :
         /\ (ret'.op = "add_transient" /\ ret'.cls = cls /\
                (cls \in DOMAIN transients \/ cls \in DOMAIN scoped)) => ret'.err # "none"
         /\ (ret'.op = "add_scoped" /\ ret'.cls = cls /\ cls \in DOMAIN transients) =>
                ret'.err # "none"
         /\ (DOMAIN transients' \cap DOMAIN scoped') = {}
      ]_vars

\* C12 amended: each of add_transient and add_scoped rejects a key already
\* bound in its own category, leaving both categories as they were, and
\* looks at no other category: a key bound as scoped is accepted by
\* add_transient, a key bound as transient by add_scoped, and the key is
\* then bound in both.
C12_DuplicatePerCategory ==
    [][\A cls \in PlainClasses :
         /\ (ret'.op = "add_transient" /\ ret'.cls = cls /\ cls \in DOMAIN transients) =>
                /\ ret'.err = "Transient already exists"
                /\ UNCHANGED <<transients, scoped, objs>>
         /\ (ret'.op = "add_scoped" /\ ret'.cls = cls /\ cls \in DOMAIN scoped) =>
                /\ ret'.err = "Scoped already exists"
                /\ UNCHANGED <<transients, scoped, objs>>
         /\ (ret'.op = "add_transient" /\ ret'.cls = cls /\
                cls \notin DOMAIN transients /\ cls \in DOMAIN scoped) =>
                /\ ret'.err = "none"
                /\ transients' = DictSet(transients, cls, cls)
                /\ scoped' = scoped
         /\ (ret'.op = "add_scoped" /\ ret'.cls = cls /\
                cls \notin DOMAIN scoped /\ cls \in DOMAIN transients) =>
                /\ ret'.err = "none"
                /\ scoped' = DictSet(scoped, cls, cls)
                /\ transients' = transients
      ]_vars

\* C12's case: a duplicate registration was just rejected while some key is
\* bound both as transient and as scoped.
C12_Witness ==
    /\ ret.err \in {"Transient already exists", "Scoped already exists"}
    /\ (DOMAIN transients \cap DOMAIN scoped) # {}

\* C13 as claimed: add_service of a class under a key that already holds a
\* service fails with a "service already exists" error and leaves the
\* bindings as they were.
C13_ServiceKeyNeverReplaced ==
    [][\A cls \in ServiceClasses :
         (ret'.op = "add_service" /\ ret'.cls = cls /\ cls \in ServiceKeys(services)) =>
             /\ ret'.err = "Service already exists"
             /\ services' = services
      ]_vars

\* C13 amended: add_service of a class whose construction succeeds binds
\* the instance it just constructed to the key and registers it, whether or
\* not the key held a service: an earlier instance is replaced (it stays
\* registered, and is bound no more), the other keys keep their instances,
\* and each key is held once.
C13_ServiceReplaced ==
    [][\A cls \in ServiceClasses :
         (ret'.op = "add_service" /\ ret'.cls = cls /\ Len(objs') > Len(objs)) =>
             /\ ret'.err = "none"
             /\ ServiceAt(services', cls) = Len(objs')
             /\ objs'[Len(objs')].cls = cls
             /\ registered' = registered \cup {Len(objs')}
             /\ ServiceKeys(services') = ServiceKeys(services) \cup {cls}
             /\ \A k \in ServiceKeys(services) \ {cls} :
                    ServiceAt(services', k) = ServiceAt(services, k)
             /\ Cardinality(ServiceKeys(services')) = Len(services')
      ]_vars

\* C13's case: a key holds its second instance, the first (registered
\* still) is bound to no key.
C13_Witness ==
    \E i \in 1..Len(objs) :
        /\ i \in registered
        /\ \A j \in 1..Len(services) : services[j][2] # i
        /\ objs[i].cls \in ServiceKeys(services)

\* The instances a key of _singletons holds: the dict maps a key to one
\* instance.
SingletonsHeld(d, key) == IF key \in DOMAIN d THEN {d[key]} ELSE {}

\* C14 as claimed: after an add_singleton under a key that already holds a
\* singleton, the key holds the earlier instance and the new one.
C14_SingletonsAccumulate ==
    [][\A cls \in PlainClasses :
         (ret'.op = "add_singleton" /\ ret'.cls = cls /\ ret'.err = "none" /\
            cls \in DOMAIN singletons) =>
             /\ singletons[cls] \in SingletonsHeld(singletons', cls)
             /\ Len(objs') \in SingletonsHeld(singletons', cls)
      ]_vars

\* C14 amended: an add_singleton under a key that already holds a singleton
\* overwrites it: the key then holds the new instance alone, the earlier
\* instance is held under no key, and the other keys are untouched.
C14_SingletonOverwritten ==
    [][\A cls \in PlainClasses :
         (ret'.op = "add_singleton" /\ ret'.cls = cls /\ ret'.err = "none" /\
            cls \in DOMAIN singletons) =>
             /\ SingletonsHeld(singletons', cls) = {Len(objs')}
             /\ Len(objs') > Len(objs)
             /\ \A k \in DOMAIN singletons' : singletons'[k] # singletons[cls]
             /\ DOMAIN singletons' = DOMAIN singletons
             /\ \A k \in DOMAIN singletons \ {cls} : singletons'[k] = singletons[k]
      ]_vars

\* C14's case: a second add_singleton of a class has just succeeded: two
\* instances of the class exist and the key holds the later one.
C14_Witness ==
    /\ ret.op = "add_singleton" /\ ret.err = "none"
    /\ \E i \in 1..Len(objs) :
           /\ objs[i].cls = ret.cls
           /\ i < singletons[ret.cls]
           /\ objs[singletons[ret.cls]].cls = ret.cls

\* The categories, of singleton, transient, scoped and service in this
\* order, that bind the type.
BoundIn(type) ==
    SelectSeq(<<"singleton", "transient", "scoped", "service">>,
              LAMBDA k : \/ k = "singleton" /\ type \in DOMAIN singletons
                         \/ k = "transient" /\ type \in DOMAIN transients
                         \/ k = "scoped" /\ type \in DOMAIN scoped
                         \/ k = "service" /\ type \in ServiceKeys(services))

\* The step constructed an instance of SvcB, whose constructor takes the
\* keyword a of type SvcA: the value it was given.
ConstructsSvcB ==
    /\ ret'.op \in {"add_singleton", "add_service"}
    /\ ret'.cls = "SvcB" /\ ret'.err = "none"
GivenA == objs'[Len(objs')].kwargs["a"]

\* C15: when SvcB is constructed with SvcA bound, the value passed for a
\* comes from the first category, in the order singleton, transient,
\* scoped, service, that binds SvcA: the bound singleton, or an instance
\* constructed for this call, or the context's scoped instance (constructed
\* only if the context had none), or the bound service; nothing else is
\* constructed and the scoped cache changes only in the scoped case.
C15_CategoryPrecedence ==
    [][(ConstructsSvcB /\ BoundIn("SvcA") # << >>) =>
         LET first == Head(BoundIn("SvcA"))
             built == Len(objs') - Len(objs)
         IN  /\ first = "singleton" =>
                    /\ GivenA = singletons["SvcA"]
                    /\ built = 1 /\ contextDefault' = contextDefault
             /\ first = "transient" =>
                    /\ GivenA = Len(objs) + 1
                    /\ objs'[GivenA].cls = transients["SvcA"]
                    /\ built = 2 /\ contextDefault' = contextDefault
             /\ first = "scoped" =>
                    /\ GivenA = contextDefault'["SvcA"]
                    /\ IF "SvcA" \in DOMAIN contextDefault
                       THEN built = 1 /\ contextDefault' = contextDefault
                       ELSE built = 2 /\ GivenA = Len(objs) + 1
             /\ first = "service" =>
                    /\ GivenA = ServiceAt(services, "SvcA")
                    /\ built = 1 /\ contextDefault' = contextDefault
      ]_vars

\* C15's case: SvcB has just been constructed while SvcA is bound as a
\* service and in a category of higher precedence.
C15_Witness ==
    /\ ret.op \in {"add_singleton", "add_service"} /\ ret.cls = "SvcB" /\ ret.err = "none"
    /\ objs[Len(objs)].cls = "SvcB"
    /\ Len(BoundIn("SvcA")) >= 2
    /\ "SvcA" \in ServiceKeys(services)
    /\ objs[Len(objs)].kwargs["a"] # ServiceAt(services, "SvcA")

\* The classes whose one parameter is a union of Leaf and Other.
EitherClasses == {"NeedsEither", "NeedsEitherOpt"}

\* C16 as claimed: a class whose parameter is declared Leaf | Other is
\* constructed with Leaf's singleton when Leaf is bound, and with Other's
\* when only Other is bound.
C16_UnionFirstBound ==
    [][\A cls \in EitherClasses :
         (ret'.op = "add_singleton" /\ ret'.cls = cls /\
            ("Leaf" \in DOMAIN singletons \/ "Other" \in DOMAIN singletons)) =>
             /\ ret'.err = "none"
             /\ objs'[Len(objs')].cls = cls
             /\ objs'[Len(objs')].args[1] =
                    (IF "Leaf" \in DOMAIN singletons THEN singletons["Leaf"]
                                                     ELSE singletons["Other"])
      ]_vars

\* C16 amended: the alternatives of a union are never looked up.  The
\* union is taken as one key, which no category holds, so whatever Leaf
\* and Other are bound to, the construction fails with the unknown-
\* dependency error when the parameter's descriptor says required, and
\* passes None when it does not; nothing is constructed for the parameter.
C16_UnionNeverResolved ==
    [][\A cls \in EitherClasses :
         (ret'.op = "add_singleton" /\ ret'.cls = cls) =>
             IF Dependency(Signature(cls)[1]).required
             THEN ret'.err = "Unknown dependency" /\ UNCHANGED <<objs, singletons>>
             ELSE /\ ret'.err = "none"
                  /\ Len(objs') = Len(objs) + 1
                  /\ objs'[Len(objs')].cls = cls
                  /\ objs'[Len(objs')].args = << None >>
      ]_vars

\* C16's case: a class with a Leaf | Other parameter has just been
\* constructed while Other is bound and Leaf is not.
C16_Witness ==
    /\ ret.op = "add_singleton" /\ ret.cls = "NeedsEither" /\ ret.err = "none"
    /\ objs[Len(objs)].cls = "NeedsEither"
    /\ "Other" \in DOMAIN singletons
    /\ Unbound("Leaf")

\* C17: the state property of the Application and that of a component
\* derived from Service never read UNKNOWN: in every state a task can
\* observe, one of the four flags of each is set.
C17_StateNeverUnknown ==
    /\ State # "UNKNOWN"
    /\ starting \/ started \/ stopping \/ stopped
    /\ ServiceState # "UNKNOWN"
    /\ svc.starting \/ svc.started \/ svc.stopping \/ svc.stopped

\* C17's case: the component has been started, and a start() of the
\* Application with a service registered has ended by its timeout.
C17_Witness ==
    /\ ServiceState = "STARTED"
    /\ services # << >>
    /\ \E t \in Tasks : pc[t] = "done" /\ result[t] = "TimeoutError"
    /\ State = "STOPPED"

\* C18: a call of the component's start() or stop() that its guard
\* rejects ends with the guard's error, leaves the flags alone and never
\* reaches the user's body; the user's start body is entered only from
\* STOPPED (not from STARTING, STARTED or STOPPING), the user's stop body
\* only from STARTED (not while STOPPING); a start that returns leaves the
\* component STARTED, a stop that returns leaves it STOPPED, and in STOPPED
\* the start guard lets a call through.
C18_ServiceGuards ==
    [][\A t \in Tasks :
         /\ (spc[t] = "idle" /\ spc'[t] = "done") =>
                (sresult'[t] \in GuardErrors /\ svc' = svc)
         /\ (spc[t] = "idle" /\ spc'[t] = "start") =>
                (ServiceState = "STOPPED" /\ ServiceState' = "STARTING")
         /\ (spc[t] = "idle" /\ spc'[t] = "stop") =>
                (ServiceState = "STARTED" /\ ServiceState' = "STOPPING")
         /\ (spc[t] = "start" /\ sresult'[t] = "ok") => ServiceState' = "STARTED"
         /\ (spc[t] = "stop" /\ sresult'[t] = "ok") => ServiceState' = "STOPPED"
         /\ ServiceState' = "STOPPED" => start_service_guard' = "none"
      ]_vars

\* C18's case: the component, stopped once and started again, is STARTED;
\* one caller holds a rejected start, the other a rejected stop.
C18_Witness ==
    /\ ServiceState = "STARTED"
    /\ \E t, u \in Tasks :
           /\ spc[t] = "done" /\ sresult[t] = "Application is already running"
           /\ spc[u] = "done" /\ sresult[u] = "Application is not running"

\* A service's _start (resp. _stop) coroutine made by some start() (resp.
\* stop()) call is suspended in the user's body.
StartInFlight == (fanKind = "start" /\ InFlight # {}) \/ lingering
StopInFlight ==
    \/ fanKind = "stop" /\ InFlight # {}
    \/ \E s \in DOMAIN orphans : orphans[s] > 0

\* The step sets the started (resp. stopped) flag.
SetsStarted == ~started /\ started'
SetsStopped == ~stopped /\ stopped'
EveryChildReturned == \A i \in 1..Len(child) : child[i] = "done"

TimesOut(t) == pc[t] = "gather" /\ op[t] = "start" /\ result'[t] = "TimeoutError"

\* C20 as claimed: when start() times out, the service start calls still
\* in flight keep running, and the services whose start completed stay
\* running.
C20_TimeoutLeavesStartsRunning ==
    [][\A t \in Tasks : TimesOut(t) =>
           /\ running' = running
           /\ InFlight # {} => lingering'
      ]_vars

\* C20: when start() times out, every service start call that has not
\* finished is cancelled (none is left running), and nothing is rolled
\* back: the services whose start completed, and those whose start was
\* cancelled, stay registered and marked running; the state reads STOPPED.
C20_TimeoutCancelsStarts ==
    [][\A t \in Tasks : TimesOut(t) =>
           /\ running' = running
           /\ registered' = registered
           /\ lingering' = lingering
           /\ fanKind' = "none" /\ fan' = << >>
           /\ ~StartInFlight' \/ lingering
           /\ State' = "STOPPED"
      ]_vars

\* C20's case: the last start() ended by its timeout, a service it
\* started is marked running, and no start call is in flight any more.
C20_Witness ==
    /\ timedOut
    /\ running # {}
    /\ ~StartInFlight
    /\ \E t \in Tasks : pc[t] = "done" /\ result[t] = "TimeoutError"
    /\ State = "STOPPED"

\* The step is a call that runs the constructor resolution of a class whose
\* parameter dep is annotated with Leaf, while Leaf is bound as transient to
\* the class Impl and in no category of higher precedence.
ResolvesLeafKeyedImpl ==
    /\ \/ ret'.op = "add_singleton" /\ ret'.cls \in LeafUsers
       \/ ret'.op = "get_transient" /\ ret'.type \in LeafUsers
                                    /\ ret'.type \in DOMAIN transients
    /\ "Leaf" \notin DOMAIN singletons
    /\ "Leaf" \in DOMAIN transients /\ transients["Leaf"] = "Impl"

\* The objects the step constructed.
Built == (Len(objs) + 1)..Len(objs')

\* C21: a constructor dependency on Leaf, bound as transient to Impl by
\* add_transient(Impl, type=Leaf), resolves as get_transient(Leaf) does: the
\* call does not fail and the object it builds is given a newly built
\* instance of Impl, never null.
C21_KeyedTransientResolves ==
    [][ResolvesLeafKeyedImpl =>
          /\ ret'.err = "none"
          /\ \E n \in Built :
                 /\ objs'[n].cls \in LeafUsers
                 /\ objs'[n].args # << >>
                 /\ objs'[n].args[1] \in Built
                 /\ objs'[n].args[1] # None
                 /\ objs'[objs'[n].args[1]].cls = "Impl"
      ]_vars

\* No task is inside start() or stop(): none waits for the lock or for its
\* fan-out (a task of run() waiting for the stopped event is in neither).
NoCallInProgress == \A t \in Tasks : pc[t] \in {"idle", "done", "wait_stopped"}

\* The instances bound in self._services.
BoundServices == {services[i][2] : i \in 1..Len(services)}

\* C22: whenever no start() or stop() call is in progress, STARTED implies
\* that every registered service is running and STOPPED implies that none
\* is.  A service is registered only while the Application is at rest
\* with nothing running, where it is as it would be had it never been
\* started, so every state reached is also reached with all services
\* registered before the first start().
C22_StateAgreesWithServices ==
    NoCallInProgress =>
        /\ State = "STARTED" => BoundServices \subseteq running
        /\ State = "STOPPED" => BoundServices \cap running = {}

\* C23: at most one lifecycle transition is in flight: the STARTING and
\* STOPPING flags are never both set, and no service's start call made by a
\* start() is in flight while a service's stop call made by a stop() is.
C23_OneTransitionInFlight ==
    /\ ~(starting /\ stopping)
    /\ ~(StartInFlight /\ StopInFlight)

\* C24: an add_service call that raises leaves the service registry as it
\* was: no key is added and no key is rebound.
C24_FailedAddServiceBindsNothing ==
    [][(ret'.op = "add_service" /\ ret'.err # "none") => services' = services]_vars

\* The key a registration binds: the type= argument, or the class.
KeyOf(r) == IF r.type = NoType THEN r.cls ELSE r.type

\* Dict d2 is d1 with the one new key k bound to class cls.
OneNewBinding(d1, d2, k, cls) ==
    /\ k \notin DOMAIN d1
    /\ DOMAIN d2 = DOMAIN d1 \cup {k}
    /\ d2[k] = cls
    /\ \A j \in DOMAIN d1 : d2[j] = d1[j]

\* C25: add_transient and add_scoped only validate: whether the call
\* succeeds or fails, no object is constructed and the singleton bindings,
\* the service bindings and the scoped-instance cache are unchanged; on
\* success the only change is the one new binding, on failure nothing
\* changes.
C25_RegistrationIsDryRun ==
    [][ret'.op \in {"add_transient", "add_scoped"} =>
          /\ objs' = objs
          /\ singletons' = singletons
          /\ services' = services
          /\ contextDefault' = contextDefault
          /\ ret'.err # "none" => (transients' = transients /\ scoped' = scoped)
          /\ (ret'.err = "none" /\ ret'.op = "add_transient") =>
                 /\ OneNewBinding(transients, transients', KeyOf(ret'), ret'.cls)
                 /\ scoped' = scoped
          /\ (ret'.err = "none" /\ ret'.op = "add_scoped") =>
                 /\ OneNewBinding(scoped, scoped', KeyOf(ret'), ret'.cls)
                 /\ transients' = transients
      ]_vars
====
